---- MODULE Spec2Model ----
(***************************************************************************)
(* A model of hcmc_sixcam_capture.py: the fixed-interval capture loop      *)
(* (run_loop), the per-camera capture task (capture_and_record), the image *)
(* normalizer (force_jpeg_if_gif) and the day-rotating SQLite sink (DayDb).*)
(*                                                                         *)
(* Time is the wall clock read by now_vn().  It is counted in clock units; *)
(* UnitsPerMs units make one millisecond and MsPerDay milliseconds make    *)
(* one local calendar day, so both the truncation to the millisecond key   *)
(* and the date of a timestamp are computed, not assumed.                  *)
(***************************************************************************)
EXTENDS Integers, Sequences, FiniteSets, TLC

\* ------------------------------------------------------------------ bounds
UnitsPerMs == 2
MsPerDay == 2
TicksBefore == 2
MaxCycles == 2
MaxCalls == 4
MaxRows == 3
MaxBatch == 2
MaxIter == 3
MaxLate == 1

\* ------------------------------------------------------- program constants
MaxCams == 6

\* ------------------------------------------------------------------- time
\* int(ts.timestamp() * 1000): the millisecond key truncates the sub-millisecond part.
TsMs(ts) == ts \div UnitsPerMs

\* ts.isoformat(): keeps the full resolution of the timestamp.
TsIso(ts) == <<"iso", ts>>

\* ts.strftime("%Y-%m-%d"): the local calendar date of a timestamp.
DateStr(ts) == ts \div (UnitsPerMs * MsPerDay)

\* The local calendar date of a stored millisecond key.
DateOfMs(ms) == ms \div MsPerDay

\* The modelled window of the wall clock: the last TicksBefore clock units of a
\* local day and the first unit of the next day.
Midnight == UnitsPerMs * MsPerDay
MinNow == Midnight - TicksBefore
MaxNow == Midnight

NoDate == -1
Dates == 0 .. DateStr(MaxNow)

\* ------------------------------------------------------------- normalizer
\* A body of bytes: its first four bytes, whether PIL can decode it, and an
\* identity that tells two bodies apart.
Body(magic, valid, id) == [magic |-> magic, valid |-> valid, id |-> id]

\* b"" / None
NoBytes == Body("", FALSE, <<>>)

\* "<w>" in content_type.lower(), for the content types the capture client returns;
\* "none" stands for a missing header (None).
CtHas(ct, w) ==
  CASE w = "gif" -> ct \in {"image/gif", "IMAGE/GIF"}
    [] w = "png" -> ct \in {"image/png"}
    [] w = "webp" -> ct \in {"image/webp"}
    [] OTHER -> FALSE

\* urlparse(url).path.lower().endswith(e): a URL is modelled by its path suffix.
UrlEndsWith(url, e) == url = e

\* im.save(out, format="JPEG", quality=90, optimize=True) of the first frame.
JpegOf(b) == Body("JFIF", TRUE, <<"jpeg">> \o b.id)

\* "if content_type": None ("none") and the empty string are falsy.
HasCt(content_type) == content_type \notin {"none", ""}

\* Seeded fault: the signature of the bytes is not looked at.
IsGifNoMagic(img_bytes, content_type, url_hint) ==
  IF HasCt(content_type) /\ CtHas(content_type, "gif") THEN TRUE
  ELSE url_hint # "" /\ UrlEndsWith(url_hint, ".gif")

\* is_gif: the content type, else the first four bytes, else the URL's path.
IsGif(img_bytes, content_type, url_hint) ==
  IF HasCt(content_type) /\ CtHas(content_type, "gif") THEN TRUE
  ELSE IF img_bytes.magic = "GIF8" THEN TRUE
  ELSE url_hint # "" /\ UrlEndsWith(url_hint, ".gif")

\* force_jpeg_if_gif: (bytes, ext, was_gif), or an exception out of Image.open
\* on the animated path.  "none" is the missing content type, "" the missing URL.
force_jpeg_if_gif(img_bytes, content_type, url_hint) ==
  LET is_gif == IsGif(img_bytes, content_type, url_hint)
      ext ==
        IF HasCt(content_type)
        THEN IF CtHas(content_type, "png") THEN ".png"
             ELSE IF CtHas(content_type, "webp") THEN ".webp"
             ELSE ".jpg"
        ELSE IF url_hint # ""
        THEN IF UrlEndsWith(url_hint, ".webp") THEN ".webp"
             ELSE IF UrlEndsWith(url_hint, ".png") THEN ".png"
             ELSE IF UrlEndsWith(url_hint, ".jpeg") THEN ".jpg"
             ELSE IF UrlEndsWith(url_hint, ".jpg") THEN ".jpg"
             ELSE ".jpg"
        ELSE ".jpg"
  IN IF ~is_gif
     THEN [raised |-> FALSE, bytes |-> img_bytes, ext |-> ext, was_gif |-> FALSE]
     ELSE IF ~img_bytes.valid
     THEN [raised |-> TRUE, bytes |-> NoBytes, ext |-> "", was_gif |-> FALSE]
     ELSE [raised |-> FALSE, bytes |-> JpegOf(img_bytes), ext |-> ".jpg", was_gif |-> TRUE]

\* hashlib.sha256(b).hexdigest(): one digest per body.
sha256_bytes(b) == <<"sha256">> \o b.id

\* The empty string stored as the digest of a failed attempt.
NoDigest == <<>>

\* ---------------------------------------------------------------- storage
\* A DayDb: conn is "none" (None), "open" or "closed" (a Connection object that
\* has been closed, still truthy); file is the date of the database conn was
\* opened on; cur is current_date_str; dirty/work are the connection's
\* uncommitted transaction; handles are the database files held open.
NewDayDb ==
  [conn |-> "none", file |-> NoDate, cur |-> NoDate,
   dirty |-> FALSE, work |-> {}, handles |-> {}]

\* sqlite3.Connection.close(): releases the file and drops what is uncommitted.
ConnClose(s) ==
  [s EXCEPT !.conn = "closed", !.handles = @ \ {s.file}, !.dirty = FALSE, !.work = {}]

\* Seeded fault: a plain INSERT into a table without the unique index.
SqlInsertOnly(rows, r) == rows \cup {r}

\* INSERT ... ON CONFLICT(cam_id, ts_vn_ms) DO UPDATE SET <every other column>.
SqlUpsert(rows, r) ==
  {x \in rows : ~(x.cam_id = r.cam_id /\ x.ts_vn_ms = r.ts_vn_ms)} \cup {r}

\* Seeded fault: the new connection is opened without closing the old one.
OpenConnKeepOld(s, date_str, mayFail) ==
  LET s2 == [s EXCEPT !.conn = "open", !.file = date_str, !.handles = @ \cup {date_str},
                      !.dirty = FALSE, !.work = {}]
  IN {[sink |-> [s2 EXCEPT !.cur = date_str], raised |-> FALSE]}
     \cup (IF mayFail THEN {[sink |-> s, raised |-> TRUE], [sink |-> s2, raised |-> TRUE]}
           ELSE {})

\* DayDb._open_conn_for_date: the outcomes are a completed open, connect()
\* raising, and a statement after connect() raising (when the storage may fail).
OpenConnForDate(s, date_str, mayFail) ==
  LET s1 == IF s.conn # "none" THEN ConnClose(s) ELSE s
      s2 == [s1 EXCEPT !.conn = "open", !.file = date_str, !.handles = @ \cup {date_str}]
      s3 == [s2 EXCEPT !.cur = date_str]
  IN {[sink |-> s3, raised |-> FALSE]}
     \cup (IF mayFail
           THEN {[sink |-> s1, raised |-> TRUE], [sink |-> s2, raised |-> TRUE]}
           ELSE {})

\* Seeded fault: the open connection is reused whatever its date.
EnsureOpenAnyDate(s, ts, mayFail) ==
  IF s.conn # "none"
  THEN {[sink |-> s, raised |-> FALSE]}
  ELSE OpenConnForDate(s, DateStr(ts), mayFail)

\* DayDb._ensure_open_for_today
EnsureOpenForToday(s, ts, mayFail) ==
  IF s.conn # "none" /\ s.cur = DateStr(ts)
  THEN {[sink |-> s, raised |-> FALSE]}
  ELSE OpenConnForDate(s, DateStr(ts), mayFail)

\* The row upsert_one binds to the statement: the columns of the capture row
\* with the key and the ISO string derived from ts_vn.
Payload(row) ==
  [cam_id |-> row.cam_id, ts_vn_ms |-> TsMs(row.ts_vn), ts_vn_iso |-> TsIso(row.ts_vn),
   img_url |-> row.img_url, content_type |-> row.content_type, ext |-> row.ext,
   sha256 |-> row.sha256, was_gif |-> row.was_gif, ok |-> row.ok, err |-> row.err,
   img_bytes |-> row.img_bytes]

\* conn.execute(INSERT ...) then conn.commit(), on the connection s holds.
\* fk maps each date to the committed rows of that date's database file.
ExecuteAndCommit(s, fk, row, mayFail) ==
  IF s.conn # "open"
  THEN {[sink |-> s, files |-> fk, raised |-> TRUE]}
  ELSE LET base == IF s.dirty THEN s.work ELSE fk[s.file]
           w == SqlUpsert(base, Payload(row))
       IN {[sink |-> [s EXCEPT !.dirty = FALSE, !.work = {}],
            files |-> [fk EXCEPT ![s.file] = w], raised |-> FALSE]}
          \cup (IF mayFail
                THEN {[sink |-> s, files |-> fk, raised |-> TRUE],
                      [sink |-> [s EXCEPT !.dirty = TRUE, !.work = w],
                       files |-> fk, raised |-> TRUE],
                      [sink |-> [s EXCEPT !.dirty = FALSE, !.work = {}],
                       files |-> fk, raised |-> TRUE]}
                ELSE {})

\* DayDb.upsert_one
UpsertOne(s, fk, row, mayFail) ==
  UNION {IF e.raised
         THEN {[sink |-> e.sink, files |-> fk, raised |-> TRUE]}
         ELSE ExecuteAndCommit(e.sink, fk, row, mayFail)
         : e \in EnsureOpenForToday(s, row.ts_vn, mayFail)}

\* Seeded fault: close() that leaves the connection as it is.
DayDbCloseNothing(s, fk, mayFail) == {[sink |-> s, files |-> fk, raised |-> FALSE]}

\* DayDb.close: commit, then close in the finally; conn and current_date_str
\* are reset only when commit did not raise.  commit() can raise on a closed
\* connection, or when there is a transaction to commit and the storage fails.
DayDbClose(s, fk, mayFail) ==
  IF s.conn = "none"
  THEN {[sink |-> [s EXCEPT !.cur = NoDate], files |-> fk, raised |-> FALSE]}
  ELSE IF s.conn = "closed"
  THEN {[sink |-> ConnClose(s), files |-> fk, raised |-> TRUE]}
  ELSE {[sink |-> [ConnClose(s) EXCEPT !.conn = "none", !.cur = NoDate],
         files |-> IF s.dirty THEN [fk EXCEPT ![s.file] = s.work] ELSE fk,
         raised |-> FALSE]}
       \cup (IF mayFail /\ s.dirty
             THEN {[sink |-> ConnClose(s), files |-> fk, raised |-> TRUE]}
             ELSE {})

\* ------------------------------------------------------------------ state
VARIABLES
  cams,        \* the camera list json.loads read from the chunk file
  unreliable,  \* positions of the cameras whose capture client or storage may fail
  now,         \* the last reading of the wall clock by now_vn()
  stop,        \* stop_event
  pc,          \* where run_loop stands
  k,           \* the next task of the cycle to run its first segment
  cycle,       \* cycles started
  task,        \* the capture_and_record task of each camera of the cohort
  sinks,       \* sinks: cam_id -> DayDb
  files,       \* the committed rows of every <cam_id>/<date>.sqlite
  summary,     \* the last cycle summary printed
  printed,     \* cycle summaries printed
  inflight,    \* per camera, attempts issued and not yet resolved
  latest,      \* per cam_id and key, the row of the last upsert_one call when that call returned
  closed,      \* sinks whose close() the finally block has called
  attempts,    \* per camera of the chunk file, capture attempts issued so far
  midStop,     \* stop_event was set while a cycle's tasks were being run
  exitBy,      \* what made run_loop leave its try block
  nz,          \* a call of force_jpeg_if_gif on its own: the arguments and the result
  dd,          \* a DayDb used on its own: the object, its files and its last call
  ex,          \* the exporter: its source rows, the destination and its counters
  tm           \* the loop clock of run_loop: the cycle's start and the sleeps

\* The variables of the stand-alone components, which run_loop leaves alone.
aux == <<nz, dd, ex, tm>>

\* The variables of the capture process.
mainvars ==
  <<cams, unreliable, now, stop, pc, k, cycle, task, sinks, files, summary,
    printed, inflight, latest, closed, attempts, midStop, exitBy>>

vars == <<mainvars, aux>>

\* A camera descriptor of the chunk file; cam_id <<>> stands for a missing cam_id.
Cam(id) == [cam_id |-> id]

\* cam.get("cam_id") or "unknown"
CamKey(cam) == IF cam.cam_id = <<>> THEN <<"unknown">> ELSE cam.cam_id

\* Seeded fault: the slice keeps one camera too few.
CohortShort == SubSeq(cams, 1, IF Len(cams) < MaxCams - 1 THEN Len(cams) ELSE MaxCams - 1)

\* cams = cams[:6]
Cohort == SubSeq(cams, 1, IF Len(cams) < MaxCams THEN Len(cams) ELSE MaxCams)

N == Len(Cohort)

\* The keys of the sinks dict.
Keys == {CamKey(Cohort[i]) : i \in 1 .. N}

\* The position at which a key enters the sinks dict (dicts keep insertion order).
FirstIdx(key) ==
  CHOOSE i \in 1 .. N :
    CamKey(Cohort[i]) = key /\ \A j \in 1 .. (i - 1) : CamKey(Cohort[j]) # key

\* A task's locals and, while it runs, the calls it has made so far of
\* get_displayed_img_url (nloc) and of fetch_img_bytes (nfetch).
IdleTask ==
  [pc |-> "idle", ts |-> 0, url |-> "", out |-> "none", fault |-> "none",
   sent |-> {}, acked |-> FALSE, nloc |-> 0, nfetch |-> 0]

\* ------------------------------------------------------ the capture client
ImgUrls == {".jpg"}

GoodJpeg == [body |-> Body("JFIF", TRUE, <<"j1">>), ct |-> "image/jpeg"]
GoodGif == [body |-> Body("GIF8", TRUE, <<"g1">>), ct |-> "image/gif"]
BadGif == [body |-> Body("<htm", FALSE, <<"x1">>), ct |-> "image/gif"]
NoReply == [body |-> NoBytes, ct |-> "none"]

\* get_displayed_img_url: a URL, or "" for None (no image, or evaluate raised).
LocateReplies(i) == ImgUrls \cup (IF i \in unreliable THEN {""} ELSE {})

\* fetch_img_bytes: (bytes, content type), or (None, None).
FetchReplies(i) ==
  IF i \in unreliable THEN {GoodGif, BadGif, NoReply} ELSE {GoodJpeg}

\* -------------------------------------------------- the normalizer, alone
\* The arguments force_jpeg_if_gif is called with: bodies that are a JPEG, a
\* PNG, a GIF, a truncated GIF and an HTML page; content types; URL paths.
NzBodies ==
  {Body("JFIF", TRUE, <<"j1">>), Body("PNG", TRUE, <<"p1">>), Body("GIF8", TRUE, <<"g1">>),
   Body("GIF8", FALSE, <<"g2">>), Body("<htm", FALSE, <<"x1">>)}
NzTypes ==
  {"none", "", "image/jpeg", "image/png", "image/webp", "image/gif", "IMAGE/GIF",
   "application/octet-stream"}
NzUrls == {"", ".jpg", ".jpeg", ".png", ".webp", ".gif", ".bin"}

\* The stand-alone components before they are used.
NzIdle == [pc |-> "idle"]
DdIdle == [pc |-> "idle"]
ExIdle == [pc |-> "idle"]
TmIdle == [pc |-> "idle"]

AuxParked == nz = NzIdle /\ dd = DdIdle /\ ex = ExIdle /\ tm = TmIdle

\* ------------------------------------------------------------------- init
TypeInit ==
  /\ stop = FALSE
  /\ pc = "launch"
  /\ k = 1
  /\ cycle = 0
  /\ task = [i \in 1 .. N |-> IdleTask]
  /\ sinks = [key \in Keys |-> NewDayDb]
  /\ files = [key \in Keys |-> [d \in Dates |-> {}]]
  /\ summary = [ok_total |-> 0, den |-> 0]
  /\ printed = 0
  /\ inflight = [i \in 1 .. N |-> 0]
  /\ latest = [key \in Keys |-> {}]
  /\ closed = {}
  /\ attempts = [j \in 1 .. Len(cams) |-> 0]
  /\ midStop = FALSE
  /\ exitBy = "none"

\* A chunk file of n cameras with distinct ids, the last one without cam_id
\* when anon is set.
Chunk(n, anon) ==
  [i \in 1 .. n |-> IF anon /\ i = n THEN Cam(<<>>) ELSE Cam(<<"cam", i>>)]

\* A chunk file of two cameras of which neither has a cam_id.
ChunkAnon == <<Cam(<<>>), Cam(<<>>)>>

\* The runs explored: the chunk file, the cameras that may fail, and the wall
\* clock at process start.
Scenarios ==
  {[cams |-> Chunk(0, FALSE), unreliable |-> {}, now |-> MinNow],
   [cams |-> Chunk(1, FALSE), unreliable |-> {}, now |-> MinNow],
   [cams |-> Chunk(1, FALSE), unreliable |-> {1}, now |-> MinNow],
   [cams |-> Chunk(2, TRUE), unreliable |-> {1}, now |-> MinNow],
   [cams |-> Chunk(2, TRUE), unreliable |-> {2}, now |-> MinNow],
   [cams |-> Chunk(2, FALSE), unreliable |-> {1, 2}, now |-> Midnight - 1],
   [cams |-> Chunk(3, FALSE), unreliable |-> {2}, now |-> Midnight - 1],
   [cams |-> Chunk(MaxCams, FALSE), unreliable |-> {}, now |-> MaxNow],
   [cams |-> Chunk(MaxCams + 1, FALSE), unreliable |-> {}, now |-> MaxNow]}

Init ==
  /\ \E sc \in Scenarios :
       /\ cams = sc.cams
       /\ unreliable = sc.unreliable
       /\ now = sc.now
  /\ TypeInit
  /\ AuxParked

\* ---------------------------------------------------------------- actions
\* start_esc_listener's worker: ESC sets stop_event.
SetStop ==
  /\ pc # "done"
  /\ ~stop
  /\ stop' = TRUE
  /\ midStop' = (pc \in {"spawn", "gather"})
  /\ UNCHANGED <<aux, exitBy, cams, unreliable, now, pc, k, cycle, task, sinks, files,
                 summary, printed, inflight, latest, closed, attempts>>

\* init_six_pages: one page per camera, then gather (without return_exceptions)
\* of every page's goto: the pages are ready, or the goto of one camera raised.
InitSixPages ==
  {"ready"} \cup (IF \E i \in unreliable : i <= N THEN {"goto"} ELSE {})

\* async_playwright / launch / new_context raise ("launch"), or init_six_pages
\* raises ("goto"), or the loop is entered.
Launch ==
  /\ pc = "launch"
  /\ \E r \in {"launch"} \cup InitSixPages :
       /\ pc' = IF r = "ready" THEN "top" ELSE "finally"
       /\ exitBy' = IF r = "ready" THEN exitBy ELSE r
  /\ UNCHANGED <<aux, cams, unreliable, now, stop, k, cycle, task, sinks, files,
                 summary, printed, inflight, latest, closed, attempts, midStop>>

\* Seeded fault: stop_event also ends the loop while gather is awaited.
LoopTopAbortsCycle ==
  /\ \/ /\ pc \in {"top", "gather"}
        /\ stop
        /\ pc' = "finally"
        /\ exitBy' = "stop"
        /\ UNCHANGED <<k, cycle, task, inflight, attempts>>
     \/ /\ pc = "top"
        /\ ~stop
        /\ cycle < MaxCycles
        /\ cycle' = cycle + 1
        /\ task' = [i \in 1 .. N |-> [IdleTask EXCEPT !.pc = "created"]]
        /\ inflight' = [i \in 1 .. N |-> inflight[i] + 1]
        /\ attempts' = [j \in 1 .. Len(cams) |->
                          IF j <= N THEN attempts[j] + 1 ELSE attempts[j]]
        /\ k' = 1
        /\ pc' = IF N = 0 THEN "gather" ELSE "spawn"
        /\ UNCHANGED exitBy
  /\ UNCHANGED <<aux, cams, unreliable, now, stop, sinks, files, summary, printed,
                 latest, closed, midStop>>

\* while not stop_event.is_set(): leave the loop, or create the cycle's tasks.
LoopTop ==
  /\ pc = "top"
  /\ IF stop
     THEN /\ pc' = "finally"
          /\ exitBy' = "stop"
          /\ UNCHANGED <<k, cycle, task, inflight, attempts>>
     ELSE /\ cycle < MaxCycles
          /\ cycle' = cycle + 1
          /\ task' = [i \in 1 .. N |-> [IdleTask EXCEPT !.pc = "created"]]
          /\ inflight' = [i \in 1 .. N |-> inflight[i] + 1]
          /\ attempts' = [j \in 1 .. Len(cams) |->
                            IF j <= N THEN attempts[j] + 1 ELSE attempts[j]]
          /\ k' = 1
          /\ pc' = IF N = 0 THEN "gather" ELSE "spawn"
          /\ UNCHANGED exitBy
  /\ UNCHANGED <<aux, cams, unreliable, now, stop, sinks, files, summary, printed,
                 latest, closed, midStop>>

\* now_vn(): the wall clock, read no earlier than its last reading.
NowVn == now .. MaxNow

\* The first segment of task k: ts = now_vn(), then await get_displayed_img_url.
BeginTask ==
  /\ pc = "spawn"
  /\ \E ts \in NowVn :
       /\ now' = ts
       /\ task' = [task EXCEPT ![k] = [@ EXCEPT !.pc = "locate1", !.ts = ts, !.nloc = 1]]
  /\ k' = k + 1
  /\ pc' = IF k = N THEN "gather" ELSE "spawn"
  /\ UNCHANGED <<aux, exitBy, cams, unreliable, stop, cycle, sinks, files, summary,
                 printed, inflight, latest, closed, attempts, midStop>>

\* Seeded fault: gather without return_exceptions.
RaiseExceptions == FALSE

\* gather(..., return_exceptions=True)
ReturnExceptions == TRUE

\* Seeded fault: the row of a failed attempt is written without its error tag.
CaptureRowNoTag(cam, ts, img_url, ok, err, n, ct) ==
  [ts_vn |-> ts, cam_id |-> CamKey(cam), img_url |-> img_url,
   content_type |-> IF ok THEN (IF n.was_gif THEN "image/jpeg"
                                ELSE IF ct # "none" THEN ct ELSE "image/jpeg")
                   ELSE "",
   ext |-> IF ok THEN n.ext ELSE "",
   sha256 |-> IF ok /\ n.bytes # NoBytes THEN sha256_bytes(n.bytes) ELSE NoDigest,
   was_gif |-> IF ok THEN n.was_gif ELSE FALSE,
   ok |-> ok, err |-> "",
   img_bytes |-> IF ok /\ n.bytes # NoBytes THEN n.bytes ELSE NoBytes]

\* Seeded fault: the digest is taken over bytes other than the ones stored.
CaptureRowOtherDigest(cam, ts, img_url, ok, err, n, ct) ==
  [ts_vn |-> ts, cam_id |-> CamKey(cam), img_url |-> img_url,
   content_type |-> IF ok THEN (IF n.was_gif THEN "image/jpeg"
                                ELSE IF ct # "none" THEN ct ELSE "image/jpeg")
                   ELSE "",
   ext |-> IF ok THEN n.ext ELSE "",
   sha256 |-> IF ok /\ n.bytes # NoBytes THEN sha256_bytes(JpegOf(n.bytes)) ELSE NoDigest,
   was_gif |-> IF ok THEN n.was_gif ELSE FALSE,
   ok |-> ok, err |-> err,
   img_bytes |-> IF ok /\ n.bytes # NoBytes THEN n.bytes ELSE NoBytes]

\* The row capture_and_record builds (lines 350-372, STORE_BASE64 = False).
CaptureRow(cam, ts, img_url, ok, err, n, ct) ==
  [ts_vn |-> ts,
   cam_id |-> CamKey(cam),
   img_url |-> img_url,
   content_type |-> IF ok THEN (IF n.was_gif THEN "image/jpeg"
                                ELSE IF ct # "none" THEN ct ELSE "image/jpeg")
                   ELSE "",
   ext |-> IF ok THEN n.ext ELSE "",
   sha256 |-> IF ok /\ n.bytes # NoBytes THEN sha256_bytes(n.bytes) ELSE NoDigest,
   was_gif |-> IF ok THEN n.was_gif ELSE FALSE,
   ok |-> ok,
   err |-> err,
   img_bytes |-> IF ok /\ n.bytes # NoBytes THEN n.bytes ELSE NoBytes]

\* What the normalizer's result looks like on the paths that never call it.
NotNormalized == [raised |-> FALSE, bytes |-> NoBytes, ext |-> "", was_gif |-> FALSE]

\* Seeded fault: the except clause swallows the error and ok is returned.
ReturnOk(ok, raised) == IF ok THEN "true" ELSE "false"

\* What the task returns: False from the except clause when upsert_one raised,
\* else ok.
Returned(ok, raised) == IF raised THEN "false" ELSE IF ok THEN "true" ELSE "false"

\* The tail of capture_and_record: sink.upsert_one(row) in its try/except, and
\* the return.  fault records what went wrong in this attempt, if anything.
Record(i, row, fault) ==
  LET key == CamKey(Cohort[i]) IN
  \E o \in UpsertOne(sinks[key], files[key], row, i \in unreliable) :
    /\ sinks' = [sinks EXCEPT ![key] = o.sink]
    /\ files' = [files EXCEPT ![key] = o.files]
    /\ task' = [task EXCEPT ![i] =
         [@ EXCEPT !.pc = "done",
                   !.out = Returned(row.ok, o.raised),
                   !.fault = IF fault # "none" THEN fault
                             ELSE IF o.raised THEN "store" ELSE "none",
                   !.sent = {Payload(row)},
                   !.acked = ~o.raised,
                   !.nloc = 0, !.nfetch = 0]]
    /\ latest' = [latest EXCEPT ![key] =
         {x \in @ : x.ts_vn_ms # TsMs(row.ts_vn)}
           \cup (IF o.raised THEN {} ELSE {Payload(row)})]
    /\ inflight' = [inflight EXCEPT ![i] = @ - 1]

\* run_loop is suspended in an await, so the event loop runs the tasks.
LoopAwaits == pc \in {"gather", "sleep"}

\* Seeded fault: a step that came back empty is called again, whatever the call.
RetryAgain(p) == TRUE

\* "if not img_url:" / "if not b:" follow the first call only: the second call's
\* result is taken as it is.
Retry(p) == p \in {"locate1", "fetch1"}

\* get_displayed_img_url returns to task i (the second call follows sleep(1.0)).
LocateReturn(i) ==
  /\ LoopAwaits
  /\ task[i].pc \in {"locate1", "locate2"}
  /\ \E url \in LocateReplies(i) :
       IF url # ""
       THEN /\ task' = [task EXCEPT ![i] =
                 [@ EXCEPT !.pc = "fetch1", !.url = url, !.nfetch = 1]]
            /\ UNCHANGED <<sinks, files, latest, inflight>>
       ELSE IF Retry(task[i].pc)
       THEN /\ task' = [task EXCEPT ![i] = [@ EXCEPT !.pc = "locate2", !.nloc = @ + 1]]
            /\ UNCHANGED <<sinks, files, latest, inflight>>
       ELSE Record(i, CaptureRow(Cohort[i], task[i].ts, "", FALSE, "no_img_found",
                                 NotNormalized, "none"), "locate")
  /\ UNCHANGED <<aux, exitBy, cams, unreliable, now, stop, pc, k, cycle, summary, printed, closed, attempts, midStop>>

\* fetch_img_bytes returns to task i (the second call follows sleep(1.0)); with
\* bytes in hand the task normalizes, records and returns without another await.
FetchReturn(i) ==
  /\ LoopAwaits
  /\ task[i].pc \in {"fetch1", "fetch2"}
  /\ \E rep \in FetchReplies(i) :
       IF rep.body # NoBytes
       THEN LET n == force_jpeg_if_gif(rep.body, rep.ct, task[i].url) IN
            IF n.raised
            THEN /\ task' = [task EXCEPT ![i] =
                      [@ EXCEPT !.pc = "done", !.out = "exc", !.fault = "decode",
                                !.nloc = 0, !.nfetch = 0]]
                 /\ inflight' = [inflight EXCEPT ![i] = @ - 1]
                 /\ UNCHANGED <<sinks, files, latest>>
            ELSE Record(i, CaptureRow(Cohort[i], task[i].ts, task[i].url, TRUE, "",
                                      n, rep.ct), "none")
       ELSE IF Retry(task[i].pc)
       THEN /\ task' = [task EXCEPT ![i] = [@ EXCEPT !.pc = "fetch2", !.nfetch = @ + 1]]
            /\ UNCHANGED <<sinks, files, latest, inflight>>
       ELSE Record(i, CaptureRow(Cohort[i], task[i].ts, task[i].url, FALSE,
                                 "fetch_failed", NotNormalized, "none"), "fetch")
  /\ UNCHANGED <<aux, exitBy, cams, unreliable, now, stop, pc, k, cycle, summary, printed, closed, attempts, midStop>>

\* Seeded fault: the loop goes on without waiting for the tasks.
NoBarrier == TRUE

\* Every task of the cycle has returned or raised.
AllResolved == \A i \in 1 .. N : task[i].pc = "done"

\* gather returns; the results are counted and the summary line is printed.
\* With return_exceptions off, a task's exception would leave the try block.
Join ==
  /\ pc = "gather"
  /\ AllResolved
  /\ IF ~ReturnExceptions /\ \E i \in 1 .. N : task[i].out = "exc"
     THEN /\ pc' = "finally"
          /\ exitBy' = "task"
          /\ UNCHANGED <<summary, printed>>
     ELSE /\ exitBy' = exitBy
          /\ summary' = [ok_total |-> Cardinality({i \in 1 .. N : task[i].out = "true"}),
                         den |-> N]
          /\ printed' = printed + 1
          /\ pc' = "sleep"
  /\ UNCHANGED <<aux, cams, unreliable, now, stop, k, cycle, task, sinks, files,
                 inflight, latest, closed, attempts, midStop>>

\* asyncio.sleep(max(0.0, INTERVAL_SEC - elapsed)) returns.
Wake ==
  /\ pc = "sleep"
  /\ pc' = "top"
  /\ UNCHANGED <<aux, exitBy, cams, unreliable, now, stop, k, cycle, task, sinks, files,
                 summary, printed, inflight, latest, closed, attempts, midStop>>

\* finally: for s in sinks.values(): try s.close() except Exception: pass
CloseSink ==
  /\ pc = "finally"
  /\ closed # Keys
  /\ LET key == CHOOSE x \in Keys \ closed :
                  \A y \in Keys \ closed : FirstIdx(x) <= FirstIdx(y)
     IN \E o \in DayDbClose(sinks[key], files[key],
                            \E i \in unreliable : i <= N /\ CamKey(Cohort[i]) = key) :
          /\ sinks' = [sinks EXCEPT ![key] = o.sink]
          /\ files' = [files EXCEPT ![key] = o.files]
          /\ closed' = closed \cup {key}
  /\ UNCHANGED <<aux, exitBy, cams, unreliable, now, stop, pc, k, cycle, task, summary,
                 printed, inflight, latest, attempts, midStop>>

\* run_loop returns (or re-raises) once the finally block is through.
Exit ==
  /\ pc = "finally"
  /\ closed = Keys
  /\ pc' = "done"
  /\ UNCHANGED <<aux, exitBy, cams, unreliable, now, stop, k, cycle, task, sinks, files,
                 summary, printed, inflight, latest, closed, attempts, midStop>>

Next ==
  \/ SetStop
  \/ Launch
  \/ LoopTop
  \/ BeginTask
  \/ \E i \in 1 .. N : LocateReturn(i)
  \/ \E i \in 1 .. N : FetchReturn(i)
  \/ Join
  \/ Wake
  \/ CloseSink
  \/ Exit

Spec == Init /\ [][Next]_vars

\* The capture process with no camera and nothing started: the state of the
\* program when one of its components is exercised alone.
Parked ==
  /\ cams = <<>>
  /\ unreliable = {}
  /\ now = MinNow
  /\ TypeInit

\* One call of force_jpeg_if_gif.
Normalize ==
  /\ nz.pc = "idle"
  /\ \E b \in NzBodies, ct \in NzTypes, url \in NzUrls :
       nz' = [pc |-> "returned", img_bytes |-> b, content_type |-> ct, url_hint |-> url,
              res |-> force_jpeg_if_gif(b, ct, url)]
  /\ UNCHANGED <<mainvars, dd, ex, tm>>

NextNz == Normalize

InitNz == Parked /\ AuxParked

SpecNz == InitNz /\ [][NextNz]_vars

\* ---------------------------------------------------------- a DayDb, alone
\* The rows a caller hands upsert_one for a timestamp: a captured image, or a
\* failed attempt.
DdRows(ts) ==
  {CaptureRow(Cam(<<"c">>), ts, ".jpg", TRUE, "",
              [raised |-> FALSE, bytes |-> GoodJpeg.body, ext |-> ".jpg", was_gif |-> FALSE],
              GoodJpeg.ct),
   CaptureRow(Cam(<<"c">>), ts, "", FALSE, "no_img_found", NotNormalized, "none")}

\* DayDb(DB_ROOT, cam_id, chunk_file), with no database file yet.  last is the
\* last call made on it: the method, whether the storage could fail during it,
\* whether it raised, the row it was given and the files before it.
DdNew ==
  [pc |-> "used", sink |-> NewDayDb, files |-> [d \in Dates |-> {}], calls |-> 0,
   last |-> [op |-> "new", fault |-> FALSE, raised |-> FALSE, rows |-> {},
             before |-> [d \in Dates |-> {}]]]

\* A call of upsert_one, with any timestamp of the clock's window.
DdUpsert ==
  /\ dd.pc = "used"
  /\ dd.calls < MaxCalls
  /\ \E ts \in MinNow .. MaxNow, mf \in BOOLEAN :
       \E row \in DdRows(ts) :
         \E o \in UpsertOne(dd.sink, dd.files, row, mf) :
           dd' = [dd EXCEPT !.sink = o.sink, !.files = o.files, !.calls = @ + 1,
                            !.last = [op |-> "upsert", fault |-> mf, raised |-> o.raised,
                                      rows |-> {Payload(row)}, before |-> dd.files]]
  /\ UNCHANGED <<mainvars, nz, ex, tm>>

\* A call of close.
DdClose ==
  /\ dd.pc = "used"
  /\ dd.calls < MaxCalls
  /\ \E mf \in BOOLEAN :
       \E o \in DayDbClose(dd.sink, dd.files, mf) :
         dd' = [dd EXCEPT !.sink = o.sink, !.files = o.files, !.calls = @ + 1,
                          !.last = [op |-> "close", fault |-> mf, raised |-> o.raised,
                                    rows |-> {}, before |-> dd.files]]
  /\ UNCHANGED <<mainvars, nz, ex, tm>>

NextDd == DdUpsert \/ DdClose

\* ------------------------------------------------------------ the exporter
\* The rows of the source table in ORDER BY ts_vn_ms order.  A row: its ok
\* column; ts_ms ("ms" a number fromtimestamp accepts, "bad" NULL or anything
\* else) and ts_iso ("iso" a string fromisoformat accepts, "bad" NULL, empty or
\* anything else); the HHMMSS of the timestamp parse_ts reads; img_bytes (an
\* image PIL reads, other bytes, the empty blob, or NULL) and img_b64 ("none"
\* NULL or empty, "b64" text that decodes to bytes, "badpad" text b64decode
\* rejects).  Rows that are not ok, rows without a readable timestamp and rows
\* whose payload is in img_b64 are drawn in one shape each.
ExRow0 ==
  [ok |-> TRUE, ts_ms |-> "ms", ts_iso |-> "iso", hhmmss |-> 1,
   img_bytes |-> "raw", img_b64 |-> "none"]

ExRowKinds ==
  {[ExRow0 EXCEPT !.ok = FALSE],
   [ExRow0 EXCEPT !.ts_ms = "bad", !.ts_iso = "bad"],
   [ExRow0 EXCEPT !.ts_ms = "bad", !.hhmmss = 2, !.img_bytes = "image"],
   [ExRow0 EXCEPT !.img_bytes = "null"],
   [ExRow0 EXCEPT !.img_bytes = "null", !.img_b64 = "b64"],
   [ExRow0 EXCEPT !.img_bytes = "empty", !.img_b64 = "badpad"]}
  \cup {[ExRow0 EXCEPT !.hhmmss = h, !.img_bytes = b] :
          h \in 1 .. 2, b \in {"image", "raw", "empty"}}

\* Seeded fault: a timestamp is always read.
parse_ts_any(ts_ms, ts_iso) == "ms"

\* parse_ts: the timestamp read from ts_ms, else from ts_iso, else ValueError.
parse_ts(ts_ms, ts_iso) ==
  IF ts_ms = "ms" THEN "ms" ELSE IF ts_iso = "iso" THEN "iso" ELSE "raise"

\* Seeded fault: text that b64decode rejects is taken as bytes.
B64DecodeAny(img_b64) == "raw"

\* try: base64.b64decode(row["img_b64"]) except Exception: b""
B64Decode(img_b64) == IF img_b64 = "b64" THEN "raw" ELSE "empty"

\* Source tables of up to MaxRows rows; a row's place stands for its ts_vn_ms.
ExTables == UNION {[1 .. n -> ExRowKinds] : n \in 0 .. MaxRows}

\* f"{cam_id}__{slug}__{date_compact}__{hhmmss}__{sha8}{ext}": within one
\* source file and one camera only the time of day, the digest prefix and the
\* extension vary; the rows drawn share digest and extension.
FileName(row) == <<"cam", "slug", "date", row.hhmmss, "sha8", ".jpg">>

\* WHERE ok=1 AND ((img_bytes IS NOT NULL) OR (img_b64 IS NOT NULL AND
\* img_b64 <> '')) ORDER BY ts_vn_ms: the places of the qualifying rows.
Qualifying(rows) ==
  {i \in 1 .. Len(rows) :
     rows[i].ok /\ (rows[i].img_bytes # "null" \/ rows[i].img_b64 # "none")}

\* The i-th smallest element of a set of numbers.
RECURSIVE Nth(_, _)
Nth(S, i) ==
  LET m == CHOOSE x \in S : \A y \in S : x <= y
  IN IF i = 1 THEN m ELSE Nth(S \ {m}, i - 1)

\* Seeded fault: each batch starts one row further than its offset.
BatchOffByOne(rows, batch, offset) ==
  LET q == Qualifying(rows)
      n == Cardinality(q)
      lo == offset + 1
      hi == IF lo + batch < n THEN lo + batch ELSE n
  IN [j \in 1 .. (IF hi > lo THEN hi - lo ELSE 0) |-> Nth(q, lo + j)]

\* LIMIT batch OFFSET offset: the places of the rows of one batch, in order.
Batch(rows, batch, offset) ==
  LET q == Qualifying(rows)
      n == Cardinality(q)
      hi == IF offset + batch < n THEN offset + batch ELSE n
  IN [j \in 1 .. (IF hi > offset THEN hi - offset ELSE 0) |-> Nth(q, offset + j)]

\* Seeded fault: the destination is never found to exist.
PathNeverExists(fsys, name) == FALSE

\* out_path.exists()
PathExists(fsys, name) == \E f \in fsys : f.name = name

\* pil_save_or_bytes: the image re-saved by PIL, or the bytes as they are; the
\* file at the path is created or replaced.
PilSaveOrBytes(fsys, name, row, at) ==
  {f \in fsys : f.name # name}
    \cup {[name |-> name,
           content |-> <<IF row.img_bytes = "image" THEN "pil" ELSE "bytes", at>>]}

\* export_sqlite is called on a table, with a batch size and a destination
\* that is empty or holds a file from before.
ExStart(rows, batch, fsys) ==
  [pc |-> "fetch", rows |-> rows, batch |-> batch, fsys |-> fsys, run |-> 1,
   offset |-> 0, buf |-> <<>>, exported |-> 0, skipped |-> 0, total_ok |-> 0,
   first |-> {}, report |-> <<>>, seen |-> <<>>]

InitEx ==
  /\ Parked
  /\ nz = NzIdle /\ dd = DdIdle /\ tm = TmIdle
  /\ \E rows \in ExTables, batch \in 1 .. MaxBatch :
       \E fsys \in {{}, {[name |-> FileName(ExRow0), content |-> <<"old", 0>>]}} :
         ex = ExStart(rows, batch, fsys)

\* rows = conn.execute(base_sql, (batch, offset)).fetchall(); an empty batch
\* ends the loop: conn.close() and return.
ExFetch ==
  /\ ex.pc = "fetch"
  /\ LET b == Batch(ex.rows, ex.batch, ex.offset)
     IN ex' = IF Len(b) = 0
              THEN [ex EXCEPT !.pc = "returned"]
              ELSE [ex EXCEPT !.pc = "rows", !.buf = b]
  /\ UNCHANGED <<mainvars, nz, dd, tm>>

\* The body of "for row in rows" for the next row of the batch; after the last
\* row of the batch, offset += batch.  seen keeps, for each row the loop has
\* taken, its place, how it ended, whether its path existed when the row was
\* taken, and whether the step changed the destination.
ExRow ==
  /\ ex.pc = "rows"
  /\ LET at == Head(ex.buf)
         row == ex.rows[at]
         name == FileName(row)
         rest == Tail(ex.buf)
         existed == \E f \in ex.fsys : f.name = name
         img_bytes == IF row.img_bytes \in {"empty", "null"} /\ row.img_b64 # "none"
                      THEN B64Decode(row.img_b64)
                      ELSE row.img_bytes
         on == [ex EXCEPT !.total_ok = @ + 1, !.buf = rest,
                          !.pc = IF Len(rest) = 0 THEN "fetch" ELSE "rows",
                          !.offset = IF Len(rest) = 0 THEN @ + ex.batch ELSE @]
         to == IF parse_ts(row.ts_ms, row.ts_iso) = "raise"
               THEN [ex EXCEPT !.total_ok = @ + 1, !.pc = "raised"]
               ELSE IF PathExists(ex.fsys, name)
               THEN [on EXCEPT !.skipped = @ + 1]
               ELSE IF img_bytes \in {"empty", "null"}
               THEN [on EXCEPT !.skipped = @ + 1]
               ELSE [on EXCEPT !.exported = @ + 1,
                               !.fsys = PilSaveOrBytes(ex.fsys, name,
                                          [row EXCEPT !.img_bytes = img_bytes], at)]
     IN ex' = [to EXCEPT !.seen = Append(@,
                 [at |-> at,
                  as |-> IF to.pc = "raised" THEN "raised"
                         ELSE IF to.exported > ex.exported THEN "exported"
                         ELSE "skipped",
                  existed |-> existed,
                  wrote |-> to.fsys # ex.fsys])]
  /\ UNCHANGED <<mainvars, nz, dd, tm>>

\* The exporter is run a second time on the same source and destination.
ExAgain ==
  /\ ex.pc \in {"returned", "raised"}
  /\ ex.run = 1
  /\ ex' = [ExStart(ex.rows, ex.batch, ex.fsys) EXCEPT
              !.run = 2, !.first = ex.fsys,
              !.report = <<ex.pc, ex.exported, ex.skipped, ex.total_ok>>]
  /\ UNCHANGED <<mainvars, nz, dd, tm>>

NextEx == ExFetch \/ ExRow \/ ExAgain

SpecEx == InitEx /\ [][NextEx]_vars

\* The exporter is a sequential program: a step that can be taken is taken.
SpecExFair == SpecEx /\ WF_vars(NextEx)

\* ------------------------------------------------------- the loop's period
\* INTERVAL_SEC = 15.0, in seconds of the event loop's clock.
INTERVAL_SEC == 15

\* How long the body of one iteration (the gather and the summary) may take:
\* no time, less than the period, the period exactly, more, more than twice.
CycleTakes == {0, 7, 15, 22, 31}

\* Seeded fault: the remainder is not clamped at zero.
SleepUnclamped(elapsed) == INTERVAL_SEC - elapsed

\* max(0.0, INTERVAL_SEC - elapsed)
SleepFor(elapsed) ==
  IF INTERVAL_SEC - elapsed > 0 THEN INTERVAL_SEC - elapsed ELSE 0

\* run_loop enters "while not stop_event.is_set()" with the loop clock at 0.
InitTm ==
  /\ Parked
  /\ nz = NzIdle /\ dd = DdIdle /\ ex = ExIdle
  /\ tm = [pc |-> "top", t |-> 0, start |-> 0, prev |-> -1, elapsed |-> 0,
           prevElapsed |-> 0, delay |-> 0, late |-> 0, n |-> 0]

\* start = asyncio.get_event_loop().time()
TmTop ==
  /\ tm.pc = "top"
  /\ tm.n < MaxIter
  /\ tm' = [tm EXCEPT !.pc = "cycle", !.start = tm.t,
                      !.prev = IF tm.n = 0 THEN -1 ELSE tm.start,
                      !.prevElapsed = tm.elapsed]
  /\ UNCHANGED <<mainvars, nz, dd, ex>>

\* The iteration's body runs; then elapsed = time() - start and the argument
\* of asyncio.sleep is computed.
TmCycle ==
  /\ tm.pc = "cycle"
  /\ \E took \in CycleTakes :
       LET t1 == tm.t + took
       IN tm' = [tm EXCEPT !.pc = "sleep", !.t = t1, !.elapsed = t1 - tm.start,
                           !.delay = SleepFor(t1 - tm.start)]
  /\ UNCHANGED <<mainvars, nz, dd, ex>>

\* await asyncio.sleep(delay): resumes no earlier than delay later, and up to
\* MaxLate later than that.
TmSleep ==
  /\ tm.pc = "sleep"
  /\ \E late \in 0 .. MaxLate :
       tm' = [tm EXCEPT !.pc = "top", !.t = tm.t + tm.delay + late,
                        !.late = late, !.n = @ + 1]
  /\ UNCHANGED <<mainvars, nz, dd, ex>>

NextTm == TmTop \/ TmCycle \/ TmSleep

SpecTm == InitTm /\ [][NextTm]_vars

InitDd == Parked /\ nz = NzIdle /\ dd = DdNew /\ ex = ExIdle /\ tm = TmIdle

SpecDd == InitDd /\ [][NextDd]_vars

\* The capture process started on a chunk file in which two cameras have no
\* cam_id, the first of them with a capture client that may fail.
InitAnon ==
  /\ cams = ChunkAnon
  /\ unreliable = {1}
  /\ now = Midnight - 1
  /\ TypeInit
  /\ AuxParked

SpecAnon == InitAnon /\ [][Next]_vars

\* ----------------------------------------------------------------- claims
\* The rows of key's partition for date d: committed, or written and not yet
\* committed on the connection open on it.
PartitionRows(key, d) ==
  files[key][d] \cup (IF sinks[key].file = d THEN sinks[key].work ELSE {})

\* C1: after any sequence of upsert_one calls for one camera, no two stored rows
\* (in one partition or in two) share a (cam_id, ts_vn_ms) key, every stored row
\* carries its sink's cam_id, and when the most recent upsert for a key returned,
\* the row stored for that key is that upsert's row.
C1_UpsertLastWriteWins ==
  \A key \in Keys :
    /\ \A d1 \in Dates, d2 \in Dates :
         \A r1 \in files[key][d1], r2 \in files[key][d2] :
           (r1.cam_id = r2.cam_id /\ r1.ts_vn_ms = r2.ts_vn_ms) => (d1 = d2 /\ r1 = r2)
    /\ \A d \in Dates : \A r \in files[key][d] : r.cam_id = key
    /\ \A r \in latest[key] : r \in files[key][DateOfMs(r.ts_vn_ms)]

\* C1 witness: a one-camera cohort whose first cycle stored an ok row and whose
\* second cycle wrote a failed row to the same millisecond key; only the second
\* row is stored.
C1_Witness ==
  /\ N = 1
  /\ cycle = 2
  /\ printed = 1
  /\ summary.ok_total = 1
  /\ task[1].pc = "done"
  /\ task[1].acked
  /\ \E r \in task[1].sent :
       /\ ~r.ok
       /\ \E d \in Dates : files[CamKey(Cohort[1])][d] = {r}
       /\ \A d \in Dates : files[CamKey(Cohort[1])][d] \subseteq {r}

OneHandle(key) ==
  /\ Cardinality(sinks[key].handles) <= 1
  /\ sinks[key].conn = "open" => sinks[key].handles = {sinks[key].file}
  /\ sinks[key].conn # "open" => sinks[key].handles = {}

\* A step that moves key's connection from the partition it had open to another:
\* the old file is released, its committed rows are untouched, and every row an
\* upsert returned for is among them.
Rotation(key) ==
  (sinks[key].conn = "open" /\ sinks'[key].file # sinks[key].file) =>
     /\ sinks[key].file \notin sinks'[key].handles
     /\ files'[key][sinks[key].file] = files[key][sinks[key].file]
     /\ \A r \in latest[key] :
          DateOfMs(r.ts_vn_ms) = sinks[key].file => r \in files'[key][sinks[key].file]

\* C3: on a write for another date the old partition is closed, with every
\* acknowledged write committed, before the new one is opened and written; a
\* camera never has two partitions open, and rotation loses no committed row.
C3_RotationClosesOld ==
  /\ [](\A key \in Keys : OneHandle(key))
  /\ [][\A key \in Keys : Rotation(key)]_vars

\* C3 witness: a camera whose connection is on the partition of a later date
\* while the partition of an earlier date holds rows.
C3_Witness ==
  \E key \in Keys : \E d \in Dates :
    /\ sinks[key].conn = "open"
    /\ sinks[key].cur = sinks[key].file
    /\ d < sinks[key].file
    /\ files[key][d] # {}
    /\ files[key][sinks[key].file] # {}

\* The row stored for the key of task i's attempt, if any.
StoredFor(i) ==
  {r \in files[CamKey(Cohort[i])][DateStr(task[i].ts)] : r.ts_vn_ms = TsMs(task[i].ts)}

\* C4: when a cycle's summary is printed every camera's attempt has resolved,
\* every camera whose attempt did not fail (locate, fetch, decode, storage) has
\* its ok row stored, the summary counts exactly those cameras over the cohort
\* size, and the loop is only ever left through stop_event or a failed launch.
C4_CycleIsolation ==
  /\ pc = "sleep" =>
       /\ \A i \in 1 .. N : task[i].pc = "done"
       /\ summary.den = N
       /\ summary.ok_total = Cardinality({i \in 1 .. N : task[i].fault = "none"})
       /\ \A i \in 1 .. N :
            task[i].fault = "none" =>
              \E r \in task[i].sent : r.ok /\ StoredFor(i) = {r}
  /\ pc \in {"finally", "done"} => (stop \/ cycle = 0)

\* C4 witness: a cohort of three whose second camera's fetch failed twice; the
\* summary reads 2/3 and the other two rows are stored.
C4_Witness ==
  /\ pc = "sleep"
  /\ N = 3
  /\ task[2].fault = "fetch"
  /\ summary = [ok_total |-> 2, den |-> 3]
  /\ \A i \in {1, 3} : \E r \in task[i].sent : r.ok /\ StoredFor(i) = {r}

\* C5: an attempt whose locate or fetch failed after its retry hands upsert_one
\* one row with ok false, an error tag and an empty payload, and when that write
\* returns the row is the one row stored for the attempt's (camera, timestamp).
C5_FailedAttemptRecorded ==
  \A i \in 1 .. N :
    (task[i].pc = "done" /\ task[i].fault \in {"locate", "fetch"}) =>
      /\ \E r \in task[i].sent :
           /\ task[i].sent = {r}
           /\ ~r.ok
           /\ r.err # ""
           /\ r.img_bytes = NoBytes
           /\ r.sha256 = NoDigest
      /\ task[i].acked => StoredFor(i) = task[i].sent

\* C5 witness: an attempt whose fetch failed twice, with its row stored.
C5_Witness ==
  \E i \in 1 .. N :
    /\ task[i].pc = "done"
    /\ task[i].fault = "fetch"
    /\ task[i].acked
    /\ \E r \in StoredFor(i) : r.err = "fetch_failed" /\ ~r.ok

\* C6 (as claimed): an attempt whose bytes the normalizer could not decode is
\* stored as a row with ok false and error "decode_failure".
C6_DecodeFailureRecorded ==
  \A i \in 1 .. N :
    (task[i].pc = "done" /\ task[i].fault = "decode") =>
      \E r \in StoredFor(i) : ~r.ok /\ r.err = "decode_failure"

C8_ClosedAtExit ==
  pc = "done" =>
    \A key \in Keys :
      /\ sinks[key].conn # "open"
      /\ sinks[key].handles = {}
      /\ \A r \in latest[key] : r \in files[key][DateOfMs(r.ts_vn_ms)]

\* C8 witness: the process has exited on stop_event after storing rows.
C8_Witness ==
  /\ pc = "done"
  /\ stop
  /\ \E key \in Keys : latest[key] # {}

\* C9: a camera never has two attempts in flight, and none is in flight when the
\* loop is between cycles (asleep or at its top), so a cycle's attempts are only
\* issued after every attempt of the cycle before has resolved.
C9_NoOverlap ==
  \A i \in 1 .. N :
    /\ inflight[i] <= 1
    /\ pc \in {"sleep", "top"} => inflight[i] = 0
    /\ task[i].pc \in {"created", "locate1", "locate2", "fetch1", "fetch2"}
         => inflight[i] = 1

\* C9 witness: the second cycle's attempt of a camera is in flight.
C9_Witness ==
  /\ cycle = 2
  /\ printed = 1
  /\ \E i \in 1 .. N : inflight[i] = 1 /\ task[i].pc = "fetch1"

\* The size of the cohort run_loop keeps of a chunk file.
KeptOf(n) == IF n < MaxCams THEN n ELSE MaxCams

SinkOf(i) == CamKey(Cohort[i])
Wrote(i) == task[i].pc = "done" /\ task[i].sent # {}

\* C11 (as claimed): no two cameras' capture tasks write through the same DayDb,
\* hence into the same partition file, in any cycle of any cohort.
C11_ExclusiveSink ==
  \A i \in 1 .. N, j \in 1 .. N :
    (i # j /\ Wrote(i) /\ Wrote(j)) => SinkOf(i) # SinkOf(j)

\* C12 (as claimed): the process leaves its loop only on the cancellation signal
\* or on a fatal startup error (the browser could not be launched), never on
\* the failure of one camera, its session initialization included.
C12_NoCrashOnOneCamera ==
  pc \in {"finally", "done"} => exitBy \in {"stop", "launch"}

\* C13 (as claimed): with an empty camera list the process terminates without
\* starting a capture cycle.
C13_EmptyChunkFatal ==
  Len(cams) = 0 => (cycle = 0 /\ printed = 0 /\ pc \in {"launch", "finally", "done"})

\* How far an attempt is from its end: every step of a task brings it closer.
Rank(p) ==
  CASE p = "created" -> 5
    [] p = "locate1" -> 4
    [] p = "locate2" -> 3
    [] p = "fetch1" -> 2
    [] p = "fetch2" -> 1
    [] OTHER -> 0

\* C14: an attempt calls locate at most twice and fetch at most twice; the
\* second locate follows an empty first result, the second fetch a failed first
\* fetch of the same URL; fetch is never called when locate gave nothing; and
\* every step of an attempt brings it closer to its end, a success or a failure.
C14_BoundedRetries ==
  /\ [](\A i \in 1 .. N :
          /\ task[i].nloc <= 2
          /\ task[i].nfetch <= 2
          /\ task[i].nfetch > 0 => task[i].url # ""
          /\ task[i].pc = "done" => task[i].out \in {"true", "false", "exc"})
  /\ [][\A i \in 1 .. N :
          (task[i].pc \notin {"idle", "done"} /\ task'[i] # task[i]) =>
            /\ Rank(task'[i].pc) < Rank(task[i].pc)
            /\ task'[i].nloc > task[i].nloc
                 => (task[i].pc \in {"created", "locate1"} /\ task'[i].url = "")
            /\ task'[i].nfetch > task[i].nfetch
                 => /\ task'[i].url # ""
                    /\ task[i].pc = "fetch1" \/ task[i].nfetch = 0
                    /\ task[i].nfetch > 0 => task'[i].url = task[i].url
            /\ (task'[i].pc = "done" /\ task'[i].fault = "locate")
                 => (task[i].nloc = 2 /\ task[i].nfetch = 0)
            /\ (task'[i].pc = "done" /\ task'[i].fault = "fetch")
                 => task[i].nfetch = 2]_vars

\* C14 witness: an attempt that located its image at the second call and is
\* fetching it for the second time.
C14_Witness ==
  \E i \in 1 .. N :
    /\ task[i].pc = "fetch2"
    /\ task[i].nloc = 2
    /\ task[i].nfetch = 2

\* C19: a task whose upsert_one raised returns False instead of raising; a task
\* returns True only when its capture succeeded and its row was written and
\* committed; the summary counts exactly the tasks that returned True; and the
\* loop is not left because a task failed.
C19_StorageFailureContained ==
  /\ \A i \in 1 .. N :
       /\ (task[i].pc = "done" /\ task[i].fault = "store") => task[i].out = "false"
       /\ task[i].out = "true" =>
            /\ task[i].acked
            /\ \E r \in task[i].sent : r.ok /\ StoredFor(i) = {r}
  /\ pc = "sleep" =>
       summary.ok_total = Cardinality({i \in 1 .. N : task[i].out = "true"})
  /\ exitBy # "task"

\* C19 witness: in a printed cycle one camera's image was captured but its
\* write failed, and another camera's row was stored; the summary counts the
\* second only.
C19_Witness ==
  /\ pc = "sleep"
  /\ \E i \in 1 .. N, j \in 1 .. N :
       /\ task[i].fault = "store"
       /\ task[i].out = "false"
       /\ \E r \in task[i].sent : r.ok
       /\ task[j].out = "true"
       /\ summary.ok_total = N - 1

\* The extension a content type stands for, "" when it stands for none.
CtExt(ct) ==
  CASE ct \in {"image/png"} -> ".png"
    [] ct \in {"image/webp"} -> ".webp"
    [] ct \in {"image/jpeg"} -> ".jpg"
    [] OTHER -> ""

\* The extension a URL's path suffix stands for, "" when it stands for none.
UrlExt(url) ==
  CASE url \in {".jpg", ".jpeg"} -> ".jpg"
    [] url = ".png" -> ".png"
    [] url = ".webp" -> ".webp"
    [] OTHER -> ""

\* An input is animated: by its content type, its signature or its URL.
Animated(in) ==
  \/ in.content_type \in {"image/gif", "IMAGE/GIF"}
  \/ in.img_bytes.magic = "GIF8"
  \/ in.url_hint = ".gif"

\* C17 (as claimed): for a non-animated input the extension is the content
\* type's; when the content type gives none (absent or unrecognized), the URL
\* suffix's; when that gives none either, .jpg.
C17_ExtFallback ==
  (nz.pc = "returned" /\ ~Animated(nz)) =>
    nz.res.ext = IF CtExt(nz.content_type) # "" THEN CtExt(nz.content_type)
                 ELSE IF UrlExt(nz.url_hint) # "" THEN UrlExt(nz.url_hint)
                 ELSE ".jpg"

\* C18 (as claimed): every animated input yields .jpg with was_gif set, every
\* other input comes back unchanged with was_gif unset.
C18_AnimatedToJpeg ==
  nz.pc = "returned" =>
    IF Animated(nz)
    THEN ~nz.res.raised /\ nz.res.ext = ".jpg" /\ nz.res.was_gif
    ELSE ~nz.res.raised /\ ~nz.res.was_gif /\ nz.res.bytes = nz.img_bytes

\* C18 (amended): an animated input whose bytes decode yields the JPEG of its
\* first frame, .jpg and was_gif set; one whose bytes do not decode raises; every
\* other input comes back unchanged with was_gif unset, decodable or not.
C18_AnimatedDecodedToJpeg ==
  nz.pc = "returned" =>
    IF Animated(nz)
    THEN IF nz.img_bytes.valid
         THEN /\ ~nz.res.raised
              /\ nz.res.ext = ".jpg"
              /\ nz.res.was_gif
              /\ nz.res.bytes = JpegOf(nz.img_bytes)
         ELSE nz.res.raised
    ELSE ~nz.res.raised /\ ~nz.res.was_gif /\ nz.res.bytes = nz.img_bytes

\* C18 witness: a GIF by its signature alone (JPEG content type, .jpg URL) came
\* back as a JPEG.
C18_Witness ==
  /\ nz.pc = "returned"
  /\ nz.img_bytes.magic = "GIF8"
  /\ nz.content_type = "image/jpeg"
  /\ nz.url_hint = ".jpg"
  /\ nz.res.was_gif
  /\ nz.res.ext = ".jpg"

\* C16 (as claimed): close() raises in no state unless the storage fails during
\* it, and always leaves the DayDb closed (no connection, no current date, no
\* file held); an upsert_one during which the storage does not fail reopens
\* what it needs and stores its row, and keeps every row committed before it
\* under another key.
C16_CloseThenReopen ==
  dd.pc = "used" =>
    /\ dd.last.op = "close" =>
         /\ ~dd.last.fault => ~dd.last.raised
         /\ dd.sink.conn = "none" /\ dd.sink.cur = NoDate /\ dd.sink.handles = {}
    /\ (dd.last.op = "upsert" /\ ~dd.last.fault) =>
         /\ ~dd.last.raised
         /\ \A r \in dd.last.rows : r \in dd.files[DateOfMs(r.ts_vn_ms)]
         /\ \A d \in Dates : \A x \in dd.last.before[d] :
              (\A r \in dd.last.rows : r.ts_vn_ms # x.ts_vn_ms) => x \in dd.files[d]

\* C15: during and after a second run of the exporter on the same source and
\* destination the destination holds exactly the files, with the contents, it
\* held after the first run; and a second run that returns reports exported = 0
\* and skipped = total_ok = the number of qualifying rows.
C15_SecondRunSkipsAll ==
  ex.pc # "idle" /\ ex.run = 2 =>
    /\ ex.fsys = ex.first
    /\ ex.exported = 0
    /\ ex.pc = "returned" =>
         /\ ex.skipped = ex.total_ok
         /\ ex.total_ok = Cardinality(Qualifying(ex.rows))

\* C15 witness: a first run that exported a file and skipped a row, and a
\* second run that returned having seen both rows.
C15_Witness ==
  /\ ex.pc = "returned"
  /\ ex.run = 2
  /\ ex.total_ok = 2
  /\ ex.report = <<"returned", 1, 1, 2>>
  /\ ex.first # {}

\* C20: the sleep after a cycle is max(0, P - elapsed), elapsed measured from
\* the cycle's start, and is never negative; a cycle that took less than P is
\* followed by a start at least P after its own; a cycle that took P or longer
\* is followed by a sleep of zero, so the next start comes as soon as the
\* sleep call returns, with nothing added or subtracted for the periods missed.
C20_SleepsOutTheRemainder ==
  /\ tm.pc = "sleep" =>
       /\ tm.elapsed = tm.t - tm.start
       /\ tm.delay >= 0
       /\ tm.elapsed < INTERVAL_SEC => tm.delay = INTERVAL_SEC - tm.elapsed
       /\ tm.elapsed >= INTERVAL_SEC => tm.delay = 0
  /\ tm.pc = "cycle" /\ tm.prev >= 0 =>
       /\ tm.prevElapsed < INTERVAL_SEC =>
            /\ tm.start - tm.prev >= INTERVAL_SEC
            /\ tm.start - tm.prev = INTERVAL_SEC + tm.late
       /\ tm.prevElapsed >= INTERVAL_SEC =>
            tm.start - tm.prev = tm.prevElapsed + tm.late

\* C20 witness: a third cycle starts after one cycle shorter than the period
\* and one longer than two periods.
C20_Witness ==
  /\ tm.pc = "cycle"
  /\ tm.n = 2
  /\ tm.prevElapsed = 31
  /\ tm.start - tm.prev = 31
  /\ tm.prev = INTERVAL_SEC

\* C21: when a qualifying row has a timestamp parse_ts cannot read, the export
\* never returns; the loop takes no row after that one, the row itself ends the
\* run with the exception, and every file written for an earlier row is still
\* in the destination with the content written.
C21_BadTimestampAborts ==
  ex.pc # "idle" =>
    LET bad == {i \in Qualifying(ex.rows) :
                  ex.rows[i].ts_ms = "bad" /\ ex.rows[i].ts_iso = "bad"}
    IN /\ bad # {} => ex.pc # "returned"
       /\ ex.pc = "raised" => ex.seen[Len(ex.seen)].at \in bad
       /\ \A j \in 1 .. Len(ex.seen) :
            /\ \A b \in bad : ex.seen[j].at <= b
            /\ ex.seen[j].at \in bad =>
                 /\ j = Len(ex.seen)
                 /\ ex.pc = "raised"
                 /\ ex.seen[j].as = "raised"
                 /\ ~ex.seen[j].wrote
            /\ ex.seen[j].wrote =>
                 \E f \in ex.fsys :
                   /\ f.name = FileName(ex.rows[ex.seen[j].at])
                   /\ f.content[2] = ex.seen[j].at

\* C21 witness: the first run has exported the first row, has raised on the
\* second, and a third row that qualifies was never taken.
C21_Witness ==
  /\ ex.pc = "raised"
  /\ ex.run = 1
  /\ Len(ex.seen) = 2
  /\ ex.seen[1].as = "exported"
  /\ ex.exported = 1
  /\ 3 \in Qualifying(ex.rows)
  /\ parse_ts(ex.rows[3].ts_ms, ex.rows[3].ts_iso) = "iso"

\* The rows the loop has taken are the first qualifying rows, in ascending
\* order, each once.
ExVisitedInOrder ==
  ex.pc # "idle" =>
    /\ Len(ex.seen) <= Cardinality(Qualifying(ex.rows))
    /\ \A j \in 1 .. Len(ex.seen) : ex.seen[j].at = Nth(Qualifying(ex.rows), j)

\* C22 as claimed: for every table and batch size every run of the exporter
\* ends having taken every qualifying row once, in ascending order.
C22_VisitsEachOnce ==
  /\ []ExVisitedInOrder
  /\ (ex.pc \in {"fetch", "rows"}) ~>
       (ex.pc = "returned" /\ Len(ex.seen) = Cardinality(Qualifying(ex.rows)))

\* C22 amended: every run of the exporter ends; the rows it takes are the
\* qualifying rows in ascending order, each once; a run that returns has taken
\* them all, and a run that does not has stopped at a row whose timestamp
\* cannot be read.
C22_VisitsEachOnceUnlessAborted ==
  /\ []ExVisitedInOrder
  /\ [](ex.pc = "returned" => Len(ex.seen) = Cardinality(Qualifying(ex.rows)))
  /\ [](ex.pc = "raised" =>
         LET row == ex.rows[ex.seen[Len(ex.seen)].at]
         IN row.ts_ms = "bad" /\ row.ts_iso = "bad")
  /\ (ex.pc \in {"fetch", "rows"}) ~> (ex.pc \in {"returned", "raised"})

\* C22 witness: a run with batch size 2 has returned after taking three rows.
C22_Witness ==
  /\ ex.pc = "returned"
  /\ ex.batch = 2
  /\ Len(ex.seen) = 3
  /\ ex.offset = 4

\* The number of rows taken so far that ended as given.
ExCounted(as) == Cardinality({j \in 1 .. Len(ex.seen) : ex.seen[j].as = as})

\* C23: while the exporter runs and when it returns, exported + skipped is the
\* number of rows taken and each row taken is counted in exactly one of them;
\* a row counted exported wrote a file to a path that did not exist when the
\* row was taken; a row whose path existed, also one written earlier in the
\* same run, and a row whose payload is empty or is base64 text that does not
\* decode, are counted skipped.
C23_CountsPartitionRows ==
  ex.pc \in {"fetch", "rows", "returned"} =>
    /\ ex.total_ok = Len(ex.seen)
    /\ ex.exported + ex.skipped = ex.total_ok
    /\ ex.exported = ExCounted("exported")
    /\ ex.skipped = ExCounted("skipped")
    /\ \A j \in 1 .. Len(ex.seen) :
         LET row == ex.rows[ex.seen[j].at]
         IN /\ ex.seen[j].as = "exported" => ex.seen[j].wrote /\ ~ex.seen[j].existed
            /\ ex.seen[j].as = "skipped" => ~ex.seen[j].wrote
            /\ ex.seen[j].existed => ex.seen[j].as = "skipped"
            /\ row.img_bytes \in {"empty", "null"} /\ row.img_b64 \in {"none", "badpad"}
                 => ex.seen[j].as = "skipped"
            /\ \A e \in 1 .. j - 1 :
                 ex.seen[e].wrote /\ FileName(ex.rows[ex.seen[e].at]) = FileName(row)
                   => ex.seen[j].as = "skipped"

\* C23 witness: a run into an empty destination has returned after skipping a
\* row whose base64 text does not decode, exporting the next row, and skipping
\* a third row whose path the second had written.
C23_Witness ==
  /\ ex.pc = "returned"
  /\ ex.run = 1
  /\ Len(ex.seen) = 3
  /\ ex.rows[ex.seen[1].at].img_b64 = "badpad"
  /\ ex.seen[1].as = "skipped" /\ ~ex.seen[1].existed
  /\ ex.seen[2].as = "exported"
  /\ ex.seen[3].as = "skipped" /\ ex.seen[3].existed
  /\ ex.exported = 1 /\ ex.skipped = 2

\* C24 (as claimed): in every state of a DayDb, also after calls that raised,
\* the connection is open iff current_date_str is set, an open connection is
\* on the file of current_date_str, and so every row committed sits in the
\* file of its own date.
C24_HandleMatchesDate ==
  dd.pc = "used" =>
    /\ dd.sink.conn = "open" <=> dd.sink.cur # NoDate
    /\ dd.sink.conn = "open" => dd.sink.file = dd.sink.cur
    /\ \A d \in Dates : \A x \in dd.files[d] : DateOfMs(x.ts_vn_ms) = d

\* The rows committed to the database files of all sinks.
Persisted == UNION {files[c][d] : c \in DOMAIN files, d \in Dates}

\* C25: for every row committed to a database file, ok is true iff img_bytes
\* is not empty iff sha256 is not empty iff err is empty; and the sha256 of a
\* row with ok true is the digest of the img_bytes stored in that row.
C25_RowFieldsAgree ==
  \A x \in Persisted :
    /\ x.ok <=> x.img_bytes # NoBytes
    /\ x.ok <=> x.sha256 # NoDigest
    /\ x.ok <=> x.err = ""
    /\ x.ok => x.sha256 = sha256_bytes(x.img_bytes)

\* C25 witness: the files hold a row of an animated source stored as its
\* re-encoded frame, a row stored as fetched, and the row of a failed attempt.
C25_Witness ==
  /\ \E x \in Persisted : x.ok /\ x.was_gif
  /\ \E x \in Persisted : x.ok /\ ~x.was_gif
  /\ \E x \in Persisted : ~x.ok

====
